---- MODULE Spec2Model ----
(***************************************************************************)
(* Model of the trigger-and-reconciliation engine of rubin_nights:         *)
(*   - the PM sweep of pm_handler.maintenance_loop (SpecPM), and           *)
(*   - the counter channel of efd_monitor.monitor_subsystem with the       *)
(*     checkpoint file of shutter_counter (SpecRec, SpecCrash),            *)
(*   - a counter or a non-counter channel on its own (SpecChan),           *)
(*   - shutter_counter.get_shutter_activations on short series (SpecEdge), *)
(*   - pm_handler.is_trigger_met on bounded values and configs (SpecTrig). *)
(* Every action is one atomic segment of a coroutine: from the resumption  *)
(* after one await to the next await.                                      *)
(***************************************************************************)
EXTENDS Integers, Sequences, FiniteSets, TLC

VARIABLES
    \* ---- registry (CMMS), PM side
    pms,                 \* PM instances held by the registry, in list order
    \* ---- maintenance_loop locals
    pmPc,                \* position of the sweep coroutine
    configs,             \* configs fetched at the start of the cycle
    idx,                 \* index of the config being evaluated (1-based)
    asset_value,         \* last value read by get_attribute
    new_pm_id,           \* id returned by create_pm (0 = None)
    activity_id,         \* advance_pm: activity id fetched (0 = none / returned)
    \* ---- sweep history (observation only)
    listResp,            \* per config: outcome of its PM-list query in this cycle
    reqs,                \* creation / advance requests issued in this cycle
    calm,                \* every remote call is answered, attributes are steady
    read_chan,           \* channel (index) whose attribute get_attribute read last
    \* ---- telemetry (EFD)
    series,              \* samples inside the lookback window, oldest first
    lastActive,          \* activity flag of the newest sample ever written
    totalAct,            \* activations that appeared in the telemetry
    \* ---- registry (CMMS), counter attribute and local checkpoint file
    cmms,                \* AC_count of the asset (NoneV = absent)
    ckptFile,            \* last_activations in activations_<asset>.json
    \* ---- monitor_subsystem locals, per counter task
    tasks,               \* counter tasks started by main
    recPc,
    activation_count,
    cmms_value,
    last_cmms_value,
    last_activation_count,
    updated_value,
    \* ---- reconcile history (observation only)
    cyc,                 \* record of the current / last finished cycle
    prev,                \* record of the cycle before it
    added,               \* sum of the deltas the registry accepted
    laterPubs,           \* publishes accepted on the non-first branch
    crashes,             \* abrupt terminations so far
    failed,              \* some telemetry or registry call of the channel failed
    sentFloor,           \* per task: last value read on the first cycle or sent
    loads,               \* per task: reads of the checkpoint file by this process
    savedCount,          \* count handed to the latest save_last_activation
    carried,             \* savedCount at the latest termination of the process
    \* ---- the latest call of pm_handler.is_trigger_met
    trig_value,          \* argument value
    trig_config,         \* argument config
    trig_result,         \* what the call returned and logged ("pending": none yet)
    \* ---- monitor_subsystem of a non-counter channel and its registry attribute
    ncPc,                \* position of the coroutine ("off": not started)
    ncValue,             \* value returned by query_latest_influx_value
    ncAttr,              \* the attribute of the asset in the registry
    ncCyc                \* record of the current / last finished cycle

pmVars  == <<pms, pmPc, configs, idx, asset_value, new_pm_id, activity_id,
             listResp, reqs, calm, read_chan>>
telVars == <<series, lastActive, totalAct>>
recVars == <<cmms, ckptFile, tasks, recPc, activation_count, cmms_value,
             last_cmms_value, last_activation_count, updated_value,
             cyc, prev, added, laterPubs, crashes, failed, sentFloor,
             loads, savedCount, carried>>
trigVars == <<trig_value, trig_config, trig_result>>
ncVars  == <<ncPc, ncValue, ncAttr, ncCyc>>
vars    == <<pmVars, telVars, recVars, trigVars, ncVars>>

----------------------------------------------------------------------------
\* Bounds of the model
MaxPMs     == 2      \* PM instances the registry accepts
MaxWindow  == 3      \* samples that fit into the lookback window
MaxActs    == 2      \* activations that appear in the telemetry
MaxCrashes == 1      \* abrupt terminations of the process

----------------------------------------------------------------------------
\* Python values: None, int, float (integral), str, bool
PyNone     == [t |-> "none",  n |-> 0, s |-> ""]
PyInt(i)   == [t |-> "int",   n |-> i, s |-> ""]
PyFloat(i) == [t |-> "float", n |-> i, s |-> ""]
PyStr(x)   == [t |-> "str",   n |-> 0, s |-> x]
PyBool(b)  == [t |-> "bool",  n |-> IF b THEN 1 ELSE 0, s |-> ""]

\* result of a cast: ok = FALSE stands for ValueError / TypeError
CastErr    == [ok |-> FALSE, v |-> PyNone]
CastOk(v)  == [ok |-> TRUE,  v |-> v]

\* str.lower() on the strings of the model
Lower(x) ==
    CASE x = "Aborted"    -> "aborted"
      [] x = "ABORTED"    -> "aborted"
      [] x = "Acceptance" -> "acceptance"
      [] x = "Processing" -> "processing"
      [] x = "True"       -> "true"
      [] x = "False"      -> "false"
      [] x = "Open"       -> "open"
      [] x = "None"       -> "none"
      [] OTHER            -> x

\* float(x) of a string: the numeric literals of the model
ParseFloat(x) ==
    CASE x = "12"  -> CastOk(PyFloat(12))
      [] x = "2"   -> CastOk(PyFloat(2))
      [] x = "2.0" -> CastOk(PyFloat(2))
      [] x = "1"   -> CastOk(PyFloat(1))
      [] x = "0"   -> CastOk(PyFloat(0))
      [] OTHER     -> CastErr

\* float(x)
CastFloatLenient(v) ==
    CASE v.t = "none" -> CastErr
      [] v.t = "str"  -> IF ParseFloat(v.s).ok THEN ParseFloat(v.s)
                                               ELSE CastOk(PyFloat(0))
      [] OTHER        -> CastOk(PyFloat(v.n))
CastFloat(v) ==
    CASE v.t = "none" -> CastErr
      [] v.t = "str"  -> ParseFloat(v.s)
      [] OTHER        -> CastOk(PyFloat(v.n))

\* str(x)
StrOf(v) ==
    CASE v.t = "none"  -> "None"
      [] v.t = "int"   -> ToString(v.n)
      [] v.t = "float" -> ToString(v.n) \o ".0"
      [] v.t = "bool"  -> IF v.n = 1 THEN "True" ELSE "False"
      [] OTHER         -> v.s

CastStr(v) == CastOk(PyStr(StrOf(v)))

\* lambda x: str(x).lower() in ("true", "1")
CastTruth(v) == CastOk(PyBool(Lower(StrOf(v)) \in {"true", "1"}))

\* Python truthiness, as used by "if not x"
Falsy(v) ==
    \/ v.t = "none"
    \/ v.t \in {"int", "float", "bool"} /\ v.n = 0
    \/ v.t = "str" /\ v.s = ""

\* Python ==  (numbers compare by value, a str equals only a str)
PyEqIgnoreCase(a, b) ==
    IF a.t = "str" \/ b.t = "str"
    THEN a.t = b.t /\ Lower(a.s) = Lower(b.s)
    ELSE a.t # "none" /\ b.t # "none" /\ a.n = b.n
PyEq(a, b) ==
    IF a.t = "str" \/ b.t = "str"
    THEN a.t = b.t /\ a.s = b.s
    ELSE a.t # "none" /\ b.t # "none" /\ a.n = b.n

Cast(kind, v) ==
    CASE kind = "trigger_integer" -> CastFloat(v)
      [] kind = "trigger_string"  -> CastStr(v)
      [] kind = "trigger_time"    -> CastStr(v)
      [] OTHER                    -> CastTruth(v)

trigger_types_StringFirst ==
    <<"trigger_string", "trigger_integer", "trigger_time", "trigger_True_False">>
trigger_types ==
    <<"trigger_integer", "trigger_string", "trigger_time", "trigger_True_False">>

TriggerField(config, key) ==
    CASE key = "trigger_integer" -> config.trigger_integer
      [] key = "trigger_string"  -> config.trigger_string
      [] key = "trigger_time"    -> config.trigger_time
      [] OTHER                   -> config.trigger_True_False

\* what pm_handler.is_trigger_met prints: the [WARN] lines 142, 147, 150
RECURSIVE TriggerLogFrom(_, _, _)
TriggerLogFrom(k, value, config) ==
    IF k > Len(trigger_types) THEN "WARN No valid trigger"
    ELSE LET key == trigger_types[k]
             tv  == TriggerField(config, key)
         IN IF tv.t # "none"
            THEN IF value.t = "none" THEN "WARN Value is None"
                 ELSE IF Cast(key, value).ok /\ Cast(key, tv).ok
                      THEN ""
                      ELSE "WARN Failed casting"
            ELSE TriggerLogFrom(k + 1, value, config)

trigger_log(value, config) == TriggerLogFrom(1, value, config)

\* pm_handler.is_trigger_met: the first non-null trigger field decides
RECURSIVE TriggerFromNoNoneTest(_, _, _)
TriggerFromNoNoneTest(k, value, config) ==
    IF k > Len(trigger_types) THEN FALSE
    ELSE LET key == trigger_types[k]
             tv  == TriggerField(config, key)
         IN IF tv.t # "none"
            THEN LET a == Cast(key, value)
                     b == Cast(key, tv)
                 IN a.ok /\ b.ok /\ PyEq(a.v, b.v)
            ELSE TriggerFromNoNoneTest(k + 1, value, config)
RECURSIVE TriggerFrom(_, _, _)
TriggerFrom(k, value, config) ==
    IF k > Len(trigger_types) THEN FALSE
    ELSE LET key == trigger_types[k]
             tv  == TriggerField(config, key)
         IN IF tv.t # "none"
            THEN IF value.t = "none" THEN FALSE
                 ELSE LET a == Cast(key, value)
                          b == Cast(key, tv)
                      IN a.ok /\ b.ok /\ PyEq(a.v, b.v)
            ELSE TriggerFrom(k + 1, value, config)

is_trigger_met_DefaultTrue(value, config) ==
    \/ \A k \in 1..Len(trigger_types) :
          TriggerField(config, trigger_types[k]).t = "none"
    \/ TriggerFrom(1, value, config)
is_trigger_met(value, config) == TriggerFrom(1, value, config)

\* triggers.is_trigger_met: the value is cast, the trigger field is cast
\* for trigger_integer only; bool(value) decides trigger_True_False; every
\* exception gives False
triggers_is_trigger_met(noise_level, config) ==
    IF config.trigger_integer.t # "none"
    THEN LET a == CastFloat(noise_level)
             b == CastFloat(config.trigger_integer)
         IN a.ok /\ b.ok /\ PyEq(a.v, b.v)
    ELSE IF config.trigger_string.t # "none"
    THEN PyEq(PyStr(StrOf(noise_level)), config.trigger_string)
    ELSE IF config.trigger_time.t # "none"
    THEN PyEq(PyStr(StrOf(noise_level)), config.trigger_time)
    ELSE IF config.trigger_True_False.t # "none"
    THEN PyEq(PyBool(~Falsy(noise_level)), config.trigger_True_False)
    ELSE FALSE

----------------------------------------------------------------------------
\* Configuration supplied at startup

\* sistems.config_with_interval (the channels the model needs)
config_with_interval ==
    << [name |-> "Dome Shutter", asset_id |-> "502539", attribute |-> "AC_count",
        measurement |-> "lsst.sal.MTDome.apertureShutter"],
       [name |-> "Use Hours Generador 750 kva", asset_id |-> "502673",
        attribute |-> "NoiseLevel", measurement |-> "lsst.sal.ESS.agcGenset150"],
       \* a second channel on the asset of the one before
       [name |-> "Oil level Generador 750 kva", asset_id |-> "502673",
        attribute |-> "OilLevel", measurement |-> "lsst.sal.ESS.agcGenset150"] >>

\* the trigger configurations the registry's list endpoint returns
TriggerConfig(id, asset, ti, ts, tt, tb) ==
    [id |-> id, Asset_related |-> asset, trigger_integer |-> ti,
     trigger_string |-> ts, trigger_time |-> tt, trigger_True_False |-> tb]

RegistryConfigs ==
    << TriggerConfig("c1", PyInt(502539), PyFloat(2), PyNone, PyNone, PyNone),
       TriggerConfig("c2", PyNone,        PyFloat(2), PyNone, PyNone, PyNone),
       TriggerConfig("c3", PyStr("502673"), PyNone, PyStr("open"), PyNone, PyNone),
       TriggerConfig("c4", PyStr("999999"), PyNone, PyStr("open"), PyNone, PyNone),
       TriggerConfig("c5", PyStr("502673"), PyNone, PyNone, PyNone, PyNone) >>

ConfigIds == {RegistryConfigs[i].id : i \in 1..Len(RegistryConfigs)}

\* values an asset attribute may hold when the sweep reads it
AttrValues == {PyInt(2), PyStr("open")}

\* _status_description strings of the registry's PM workflow
Statuses     == {"Processing", "Acceptance", "Aborted", "aborted", "ABORTED"}
AbortedNames == {"Aborted", "aborted", "ABORTED"}

PM(id, cfg, status) == [id |-> id, cfg |-> cfg, status |-> status]

----------------------------------------------------------------------------
\* PM sweep: pm_handler.maintenance_loop and its helpers

\* next(c for c in config_with_interval if c["asset_id"] == str(asset_id))
SystemCfgFromLast(k, asset) ==
    LET hits == {j \in k..Len(config_with_interval) :
                    config_with_interval[j].asset_id = StrOf(asset)}
    IN IF hits = {} THEN 0 ELSE CHOOSE j \in hits : \A h \in hits : j >= h
RECURSIVE SystemCfgFrom(_, _)
SystemCfgFrom(k, asset) ==
    IF k > Len(config_with_interval) THEN 0
    ELSE IF config_with_interval[k].asset_id = StrOf(asset) THEN k
    ELSE SystemCfgFrom(k + 1, asset)

SystemCfgNoStr(asset) ==
    LET hits == {k \in 1..Len(config_with_interval) :
                    config_with_interval[k].asset_id = asset.s}
    IN IF hits = {} THEN 0 ELSE CHOOSE k \in hits : \A j \in hits : k <= j
SystemCfg(asset) == SystemCfgFrom(1, asset)

\* head of the for loop: skip the configs without asset or without channel
RECURSIVE NextEvaluableAssetOnly(_, _)
NextEvaluableAssetOnly(cs, i) ==
    IF i > Len(cs) THEN i
    ELSE IF Falsy(cs[i].Asset_related)
         THEN NextEvaluableAssetOnly(cs, i + 1)
         ELSE i
RECURSIVE NextEvaluable(_, _)
NextEvaluable(cs, i) ==
    IF i > Len(cs) THEN i
    ELSE IF Falsy(cs[i].Asset_related) \/ SystemCfg(cs[i].Asset_related) = 0
         THEN NextEvaluable(cs, i + 1)
         ELSE i

\* "continue" (or the end of the loop body): go on with config i, if any
ContinueAtSame(cs, i) ==
    LET j == NextEvaluable(cs, IF i > 1 THEN i - 1 ELSE i)
    IN /\ idx' = j
       /\ pmPc' = IF j > Len(cs) THEN "sleep" ELSE "get_attr"
ContinueAt(cs, i) ==
    LET j == NextEvaluable(cs, i)
    IN /\ idx' = j
       /\ pmPc' = IF j > Len(cs) THEN "sleep" ELSE "get_attr"

\* the loop body goes on to its next await, with the same config
StayAtNextConfig(pc) ==
    /\ pmPc' = pc
    /\ idx' = IF idx < Len(configs) THEN idx + 1 ELSE idx
StayAt(pc) ==
    /\ pmPc' = pc
    /\ idx' = idx

\* status test of check_existing_active_pm
IsOpenStatusCaseSensitive(status) == status # "aborted"
IsOpenStatus(status) == Lower(status) # "aborted"

\* the scan of check_existing_active_pm: id of the first open PM of the config
ScanFirstMatchOnly(data, config_id) ==
    LET hits == {i \in 1..Len(data) : data[i].cfg = config_id}
    IN IF hits = {} THEN 0
       ELSE LET f == CHOOSE i \in hits : \A j \in hits : i <= j
            IN IF IsOpenStatus(data[f].status) THEN data[f].id ELSE 0
ScanExisting(data, config_id) ==
    LET hits == {i \in 1..Len(data) :
                    data[i].cfg = config_id /\ IsOpenStatus(data[i].status)}
    IN IF hits = {} THEN 0
       ELSE data[CHOOSE i \in hits : \A j \in hits : i <= j].id

\* observation of a PM-list response: did it hold a PM instance of the
\* config whose status is none of the spellings of "aborted"
HeldNonAborted(data, config_id) ==
    \E i \in 1..Len(data) :
        data[i].cfg = config_id /\ data[i].status \notin AbortedNames

NoResp ==
    [k |-> "none", open |-> FALSE, owned |-> FALSE, lookup |-> "none",
     acts |-> "none"]

\* answers a remote call may get: a failure only while the services are not calm
Oks == IF calm THEN {TRUE} ELSE BOOLEAN

\* value of the asset's attribute while the registry is calm
SteadyAttr(asset) == IF StrOf(asset) = "502539" THEN PyInt(2) ELSE PyInt(12)

\* get_prev_maint_configs, then the loop head
GetConfigs ==
    /\ pmPc = "fetch"
    /\ \E ok \in Oks :
         LET cs == IF ok THEN RegistryConfigs ELSE <<>>
         IN /\ configs' = cs
            /\ ContinueAt(cs, 1)
    /\ listResp' = [c \in ConfigIds |-> NoResp]
    /\ reqs' = {}
    /\ UNCHANGED <<pms, asset_value, new_pm_id, activity_id, calm, read_chan, telVars, recVars, trigVars, ncVars>>

\* get_attribute returned; "is None" and is_trigger_met guards
GetAttribute ==
    /\ pmPc = "get_attr"
    /\ \E v \in (IF calm THEN {SteadyAttr(configs[idx].Asset_related)}
                         ELSE AttrValues \cup {PyNone}) :
         /\ asset_value' = v
         /\ read_chan' = SystemCfg(configs[idx].Asset_related)
         /\ IF v.t # "none" /\ is_trigger_met(v, configs[idx])
            THEN StayAt("check_existing")
            ELSE ContinueAt(configs, idx + 1)
         /\ IF v.t # "none"
            THEN /\ trig_value' = v
                 /\ trig_config' = configs[idx]
                 /\ trig_result' = [ret |-> is_trigger_met(v, configs[idx]),
                                    log |-> trigger_log(v, configs[idx])]
            ELSE UNCHANGED trigVars
    /\ UNCHANGED <<pms, configs, new_pm_id, activity_id, listResp, reqs,
                   calm, telVars, recVars, ncVars>>

\* check_existing_active_pm returned; an exception gives (False, None)
CheckExisting ==
    /\ pmPc = "check_existing"
    /\ \E ok \in Oks :
         LET found == IF ok THEN ScanExisting(pms, configs[idx].id) ELSE 0
         IN /\ listResp' =
                 [listResp EXCEPT ![configs[idx].id] =
                    [k     |-> IF ok THEN "data" ELSE "fail",
                     open  |-> ok /\ HeldNonAborted(pms, configs[idx].id),
                     owned |-> ok /\ \E i \in 1..Len(pms) :
                                         pms[i].cfg = configs[idx].id,
                     lookup |-> "none",
                     acts   |-> "none"]]
            /\ IF found # 0
               THEN ContinueAt(configs, idx + 1)
               ELSE StayAt("create_lookup")
    /\ UNCHANGED <<pms, configs, asset_value, new_pm_id, activity_id, reqs,
                   calm, read_chan, telVars, recVars, trigVars, ncVars>>

\* create_pm, first half: get_prev_maint_config_by_id returned
CreateLookupIgnoresFailure ==
    /\ pmPc = "create_lookup"
    /\ \E ok \in Oks :
         listResp' = [listResp EXCEPT ![configs[idx].id].lookup =
                                         IF ok THEN "data" ELSE "fail"]
    /\ pmPc' = "create_post"
    /\ UNCHANGED <<pms, configs, idx, asset_value, new_pm_id, activity_id,
                   reqs, calm, read_chan, telVars, recVars, trigVars, ncVars>>
CreateLookup ==
    /\ pmPc = "create_lookup"
    /\ \E ok \in Oks :
         /\ listResp' = [listResp EXCEPT ![configs[idx].id].lookup =
                                            IF ok THEN "data" ELSE "fail"]
         /\ IF ok THEN StayAt("create_post")
                       /\ new_pm_id' = new_pm_id
                  ELSE new_pm_id' = 0 /\ ContinueAt(configs, idx + 1)
    /\ UNCHANGED <<pms, configs, asset_value, activity_id,
                   reqs, calm, read_chan, telVars, recVars, trigVars, ncVars>>

\* create_pm, second half: the POST was sent.  The registry either stores
\* the instance and answers with its id, stores it and the answer is lost
\* (timeout), or rejects the request.
CreatePost ==
    /\ pmPc = "create_post"
    /\ reqs' = reqs \cup {[kind |-> "create", cfg |-> configs[idx].id]}
    /\ \E outcome \in (IF calm THEN {"created"}
                               ELSE {"created", "lost", "rejected"}) :
         LET id == Len(pms) + 1
         IN /\ pms' = IF outcome # "rejected" /\ Len(pms) < MaxPMs
                      THEN Append(pms, PM(id, configs[idx].id, "Processing"))
                      ELSE pms
            /\ IF outcome = "created" /\ Len(pms) < MaxPMs
               THEN new_pm_id' = id /\ StayAt("adv_activities")
               ELSE new_pm_id' = 0 /\ ContinueAt(configs, idx + 1)
    /\ UNCHANGED <<configs, asset_value, activity_id, listResp, calm, read_chan, telVars, recVars, trigVars, ncVars>>

\* response.json()["data"][0]["_id"] of advance_pm: the id of the first
\* activity; 0 when the request failed or the list is empty (IndexError)
FirstActivityOrDefault(outcome) == IF outcome = "fail" THEN 0 ELSE 1
FirstActivity(outcome) == IF outcome = "activity" THEN 1 ELSE 0

\* advance_pm, first half: the activity list arrived (or not, or empty)
AdvActivities ==
    /\ pmPc = "adv_activities"
    /\ \E outcome \in (IF calm THEN {"activity", "empty"}
                               ELSE {"activity", "empty", "fail"}) :
         /\ listResp' = [listResp EXCEPT ![configs[idx].id].acts = outcome]
         /\ activity_id' = FirstActivity(outcome)
         /\ IF FirstActivity(outcome) # 0
            THEN StayAt("adv_put")
            ELSE ContinueAt(configs, idx + 1)
    /\ UNCHANGED <<pms, configs, asset_value, new_pm_id, reqs,
                   calm, read_chan, telVars, recVars, trigVars, ncVars>>

\* advance_pm, second half: the PUT with status "acceptance" was sent
AdvPut ==
    /\ pmPc = "adv_put"
    /\ reqs' = reqs \cup {[kind |-> "advance", cfg |-> configs[idx].id]}
    /\ \E ok \in Oks :
         pms' = IF ok
                THEN [pms EXCEPT ![new_pm_id].status = "Acceptance"]
                ELSE pms
    /\ activity_id' = 0
    /\ ContinueAt(configs, idx + 1)
    /\ UNCHANGED <<configs, asset_value, new_pm_id, listResp, calm, read_chan, telVars, recVars, trigVars, ncVars>>

\* asyncio.sleep(60) of the sweep is over
PMSleep ==
    /\ pmPc = "sleep"
    /\ pmPc' = "fetch"
    /\ UNCHANGED <<pms, configs, idx, asset_value, new_pm_id, activity_id,
                   listResp, reqs, calm, read_chan, telVars, recVars, trigVars, ncVars>>

\* from now on the registry answers every call and the attributes are steady
Heal ==
    /\ ~calm
    /\ calm' = TRUE
    /\ UNCHANGED <<pms, pmPc, configs, idx, asset_value, new_pm_id,
                   activity_id, listResp, reqs, read_chan, telVars, recVars, trigVars,
                   ncVars>>

\* the registry's own workflow aborts a PM instance
RegistryAbort ==
    /\ \E i \in 1..Len(pms) :
         /\ pms[i].status \notin AbortedNames
         /\ pms' = [pms EXCEPT ![i].status = "Aborted"]
    /\ UNCHANGED <<pmPc, configs, idx, asset_value, new_pm_id, activity_id,
                   listResp, reqs, calm, read_chan, telVars, recVars, trigVars, ncVars>>

----------------------------------------------------------------------------
\* Telemetry store (EFD): samples of the aperture shutter positions

NoneV == -1                          \* Python None where a number is expected

Sample(a, b) == [p0 |-> a, p1 |-> b]
Samples == {Sample(90, 0), Sample(0, 95)}

\* (positionActual0 > 90) | (positionActual1 > 90)
Activity(s) == s.p0 > 90 \/ s.p1 > 90

\* activity & ~activity.shift(1).fillna(False), summed
RisingEdgesNoFirst(rows, i) ==
    Cardinality({j \in i..Len(rows) :
                    j > 1 /\ Activity(rows[j]) /\ ~Activity(rows[j - 1])})
RECURSIVE RisingEdges(_, _)
RisingEdges(rows, i) ==
    IF i > Len(rows) THEN 0
    ELSE (IF Activity(rows[i]) /\ (i = 1 \/ ~Activity(rows[i - 1])) THEN 1 ELSE 0)
         + RisingEdges(rows, i + 1)

\* shutter_counter.get_shutter_activations: 0 for an empty result and for
\* a failed query, otherwise the number of rising edges
get_shutter_activations(ok, rows) ==
    IF ~ok \/ rows = <<>> THEN 0 ELSE RisingEdges(rows, 1)

\* a new sample is written to the telemetry store
WriteSample ==
    /\ Len(series) < MaxWindow
    /\ \E s \in Samples :
         /\ series' = Append(series, s)
         /\ lastActive' = Activity(s)
         /\ totalAct' = totalAct + (IF Activity(s) /\ ~lastActive THEN 1 ELSE 0)
         /\ totalAct' <= MaxActs
    /\ UNCHANGED <<pmVars, recVars, trigVars, ncVars>>

\* time passes: the oldest sample leaves the lookback window
SlideWindow ==
    /\ series # <<>>
    /\ series' = Tail(series)
    /\ UNCHANGED <<lastActive, totalAct, pmVars, recVars, trigVars, ncVars>>

----------------------------------------------------------------------------
\* Checkpoint store: shutter_counter.load_last_activation / save_last_activation

\* a checkpoint file whose content cannot be parsed (json.load raises)
Unreadable == -3

LoadDefaultOne(file) == IF file = NoneV THEN 1 ELSE file
load_last_activation(file) == IF file \in {NoneV, Unreadable} THEN 0 ELSE file

save_last_activation_Zero(count) == 0
save_last_activation(count) == count

----------------------------------------------------------------------------
\* Counter channel: efd_monitor.monitor_subsystem, branch of lines 189-225

TaskIds == {1, 2}

\* "if cmms_value is None: cmms_value = 0"
NoneToZero(v) == IF v = NoneV THEN 0 ELSE v

\* a registry attribute value that is no number (data.get returns whatever
\* the JSON body holds, e.g. a string); "value + int" raises TypeError on it
OddV == -2

\* an exception leaves monitor_subsystem: the task ends, and main's
\* asyncio.gather (no return_exceptions) re-raises it, which ends
\* asyncio.run and with it every other task of the process
TaskDies ==
    recPc' = [u \in TaskIds |-> IF u \in tasks THEN "dead" ELSE recPc[u]]

\* observation of one cycle: the window count it saw, the checkpoint file
\* and the registry answer at its decision, the value it sent (if any)
BlankCycle ==
    [fresh |-> 0, seen |-> 0, ckpt |-> NoneV, reg |-> NoneV, first |-> FALSE,
     pub |-> NoneV, putOk |-> FALSE, empty |-> FALSE, regFail |-> FALSE]
NoCycle == [fresh |-> 0, pub |-> NoneV, putOk |-> FALSE, first |-> FALSE]

\* get_shutter_activations ran (synchronously); get_cmms_attribute is awaited
Poll(t) ==
    /\ t \in tasks
    /\ recPc[t] = "poll"
    /\ \E ok \in Oks :
         /\ activation_count' =
              [activation_count EXCEPT ![t] = get_shutter_activations(ok, series)]
         /\ cyc' = [cyc EXCEPT ![t] =
                      [BlankCycle
                         EXCEPT !.fresh = get_shutter_activations(ok, series),
                                !.seen = totalAct,
                                !.empty = (ok /\ series = <<>>)]]
         /\ failed' = (failed \/ ~ok)
    /\ prev' = [prev EXCEPT ![t] = [fresh |-> cyc[t].fresh, pub |-> cyc[t].pub,
                                     putOk |-> cyc[t].putOk,
                                     first |-> cyc[t].first]]
    /\ recPc' = [recPc EXCEPT ![t] = "get_cmms"]
    /\ UNCHANGED <<cmms, ckptFile, tasks, cmms_value, last_cmms_value,
                   last_activation_count, updated_value, added, laterPubs,
                   crashes, sentFloor, loads, savedCount, carried,
                   pmVars, telVars, trigVars, ncVars>>

\* first cycle of the process (last_cmms_value is None), lines 197-211
FirstCycle(t, cv) ==
    LET lac == load_last_activation(ckptFile)
        new_activations == activation_count[t] - lac
    IN /\ last_activation_count' = [last_activation_count EXCEPT ![t] = lac]
       /\ last_cmms_value' = [last_cmms_value EXCEPT ![t] = cv]
       /\ IF new_activations > 0 /\ cv = OddV
          THEN /\ updated_value' = updated_value
               /\ TaskDies
          ELSE IF new_activations > 0
          THEN /\ updated_value' = [updated_value EXCEPT ![t] = cv + new_activations]
               /\ recPc' = [recPc EXCEPT ![t] = "put_first"]
          ELSE /\ updated_value' = updated_value
               /\ recPc' = [recPc EXCEPT ![t] = "sleep"]

\* the value a later cycle adds the delta to (line 215): the running value
\* kept in memory, not the value cv read from the registry in this cycle
RunningValueFromRead(t, cv) == cv
RunningValue(t, cv) == last_cmms_value[t]

\* later cycles, lines 212-225
LaterCycleNotBelow(t, cv) ==
    /\ UNCHANGED <<last_activation_count, last_cmms_value>>
    /\ IF activation_count[t] >= last_activation_count[t]
       THEN /\ updated_value' =
                 [updated_value EXCEPT ![t] =
                    RunningValue(t, cv)
                      + (activation_count[t] - last_activation_count[t])]
            /\ recPc' = [recPc EXCEPT ![t] = "put_later"]
       ELSE /\ updated_value' = updated_value
            /\ recPc' = [recPc EXCEPT ![t] = "sleep"]
LaterCycle(t, cv) ==
    /\ UNCHANGED <<last_activation_count, last_cmms_value>>
    /\ IF activation_count[t] > last_activation_count[t]
            /\ RunningValue(t, cv) = OddV
       THEN /\ updated_value' = updated_value
            /\ TaskDies
       ELSE IF activation_count[t] > last_activation_count[t]
       THEN /\ updated_value' =
                 [updated_value EXCEPT ![t] =
                    RunningValue(t, cv)
                      + (activation_count[t] - last_activation_count[t])]
            /\ recPc' = [recPc EXCEPT ![t] = "put_later"]
       ELSE /\ updated_value' = updated_value
            /\ recPc' = [recPc EXCEPT ![t] = "sleep"]

\* "if last_cmms_value is None": the first cycle of the process
IsFirstCycleAlways(t) == TRUE
IsFirstCycle(t) == last_cmms_value[t] = NoneV

\* get_cmms_attribute returned (None on any error); the delta is computed
GetCmms(t) ==
    /\ t \in tasks
    /\ recPc[t] = "get_cmms"
    /\ \E ok \in Oks :
         LET v  == IF ok THEN cmms ELSE NoneV
             cv == NoneToZero(v)
         IN /\ cmms_value' = [cmms_value EXCEPT ![t] = cv]
            /\ cyc' = [cyc EXCEPT ![t].ckpt = ckptFile, ![t].reg = v,
                                  ![t].first = IsFirstCycle(t),
                                  ![t].regFail = ~ok]
            /\ loads' = IF IsFirstCycle(t)
                        THEN [loads EXCEPT ![t] = @ + 1]
                        ELSE loads
            /\ IF IsFirstCycle(t)
               THEN FirstCycle(t, cv)
               ELSE LaterCycle(t, cv)
            /\ sentFloor' = IF IsFirstCycle(t)
                            THEN [sentFloor EXCEPT ![t] = v]
                            ELSE sentFloor
            /\ failed' = (failed \/ ~ok)
    /\ UNCHANGED <<cmms, ckptFile, tasks, activation_count, prev, added,
                   laterPubs, crashes, savedCount, carried,
                   pmVars, telVars, trigVars, ncVars>>

\* update_cmms_attribute: the PUT reached the registry or failed; the
\* coroutine is still suspended in the await
UpdateCmms(t) ==
    /\ t \in tasks
    /\ recPc[t] \in {"put_first", "put_later"}
    /\ \E ok \in Oks :
         /\ cmms' = IF ok THEN updated_value[t] ELSE cmms
         /\ added' = IF ok THEN added + (updated_value[t] - NoneToZero(cmms))
                          ELSE added
         /\ laterPubs' = IF ok /\ recPc[t] = "put_later" THEN 1 ELSE laterPubs
         /\ cyc' = [cyc EXCEPT ![t].pub = updated_value[t], ![t].putOk = ok]
         /\ sentFloor' = [sentFloor EXCEPT ![t] = updated_value[t]]
         /\ failed' = (failed \/ ~ok)
    /\ recPc' = [recPc EXCEPT ![t] =
                   IF recPc[t] = "put_first" THEN "save_first" ELSE "save_later"]
    /\ UNCHANGED <<ckptFile, tasks, activation_count, cmms_value,
                   last_cmms_value, last_activation_count, updated_value,
                   prev, crashes, loads, savedCount, carried,
                   pmVars, telVars, trigVars, ncVars>>

\* update_cmms_attribute returned: lines 207-209 of the first cycle
SaveFirst(t) ==
    /\ t \in tasks
    /\ recPc[t] = "save_first"
    /\ ckptFile' = save_last_activation(activation_count[t])
    /\ savedCount' = activation_count[t]
    /\ last_cmms_value' = [last_cmms_value EXCEPT ![t] = updated_value[t]]
    /\ recPc' = [recPc EXCEPT ![t] = "sleep"]
    /\ UNCHANGED <<cmms, tasks, activation_count, cmms_value,
                   last_activation_count, updated_value, cyc, prev, added,
                   laterPubs, crashes, failed, sentFloor, loads, carried,
                   pmVars, telVars,
                   trigVars, ncVars>>

\* "last_cmms_value = updated_value" (line 222): update_cmms_attribute
\* returns nothing, so the running value advances whether or not the PUT
\* was accepted
NextRunningIfAccepted(t) ==
    IF cyc[t].putOk THEN updated_value[t] ELSE last_cmms_value[t]
NextRunning(t) == updated_value[t]

\* update_cmms_attribute returned: lines 221-223 of a later cycle
SaveLater(t) ==
    /\ t \in tasks
    /\ recPc[t] = "save_later"
    /\ ckptFile' = save_last_activation(activation_count[t])
    /\ savedCount' = activation_count[t]
    /\ last_cmms_value' = [last_cmms_value EXCEPT ![t] = NextRunning(t)]
    /\ last_activation_count' =
         [last_activation_count EXCEPT ![t] = activation_count[t]]
    /\ recPc' = [recPc EXCEPT ![t] = "sleep"]
    /\ UNCHANGED <<cmms, tasks, activation_count, cmms_value, updated_value,
                   cyc, prev, added, laterPubs, crashes, failed, sentFloor,
                   loads, carried,
                   pmVars, telVars, trigVars, ncVars>>

\* asyncio.sleep(60) of the channel is over
RecSleep(t) ==
    /\ t \in tasks
    /\ recPc[t] = "sleep"
    /\ recPc' = [recPc EXCEPT ![t] = "poll"]
    /\ UNCHANGED <<cmms, ckptFile, tasks, activation_count, cmms_value,
                   last_cmms_value, last_activation_count, updated_value,
                   cyc, prev, added, laterPubs, crashes, failed, sentFloor,
                   loads, savedCount, carried,
                   pmVars, telVars, trigVars, ncVars>>

\* another party (an operator, another program) sets the attribute
ForeignValues == {20}

ForeignWrite ==
    /\ \E v \in ForeignValues :
         /\ cmms # v
         /\ cmms' = v
    /\ UNCHANGED <<ckptFile, tasks, recPc, activation_count, cmms_value,
                   last_cmms_value, last_activation_count, updated_value,
                   cyc, prev, added, laterPubs, crashes, failed, sentFloor,
                   loads, savedCount, carried,
                   pmVars, telVars, trigVars, ncVars>>

\* abrupt termination and restart of the process: every local of every task
\* is lost, the registry and the checkpoint file stay
Crash ==
    /\ crashes < MaxCrashes
    /\ crashes' = crashes + 1
    /\ recPc' = [t \in TaskIds |-> "poll"]
    /\ activation_count' = [t \in TaskIds |-> 0]
    /\ cmms_value' = [t \in TaskIds |-> 0]
    /\ last_cmms_value' = [t \in TaskIds |-> NoneV]
    /\ last_activation_count' = [t \in TaskIds |-> NoneV]
    /\ updated_value' = [t \in TaskIds |-> 0]
    /\ cyc' = [t \in TaskIds |-> BlankCycle]
    /\ prev' = [t \in TaskIds |-> NoCycle]
    /\ sentFloor' = [t \in TaskIds |-> NoneV]
    /\ loads' = [t \in TaskIds |-> 0]
    /\ carried' = savedCount
    /\ UNCHANGED <<cmms, ckptFile, tasks, added, laterPubs, failed, savedCount,
                   pmVars,
                   telVars, trigVars, ncVars>>

----------------------------------------------------------------------------
\* A call of pm_handler.is_trigger_met outside the sweep

\* argument values: None, numbers, numeric and other strings, booleans
TrigValues ==
    {PyNone, PyInt(12), PyFloat(12), PyInt(2), PyStr("12"), PyStr("open"),
     PyStr("Open"), PyStr("08:00"), PyStr("abc"), PyBool(TRUE), PyBool(FALSE)}

\* argument configs: every combination of set and unset trigger fields
TrigConfigs ==
    {TriggerConfig("t", PyStr("502673"), ti, ts, tt, tb) :
        ti \in {PyNone, PyFloat(12), PyStr("abc")},
        ts \in {PyNone, PyStr("open")},
        tt \in {PyNone, PyStr("08:00")},
        tb \in {PyNone, PyBool(TRUE), PyBool(FALSE)}}

TrigPending == [ret |-> FALSE, log |-> "pending"]

\* the call returns: its result and the warning it printed
EvalTrigger ==
    /\ trig_result = TrigPending
    /\ trig_result' = [ret |-> is_trigger_met(trig_value, trig_config),
                       log |-> trigger_log(trig_value, trig_config)]
    /\ UNCHANGED <<trig_value, trig_config, pmVars, telVars, recVars, ncVars>>

----------------------------------------------------------------------------
\* both evaluators are called on the same value and config
EvalTwin ==
    /\ trig_result = TrigPending
    /\ trig_result' = [ret |-> is_trigger_met(trig_value, trig_config),
                       log |-> trigger_log(trig_value, trig_config),
                       alt |-> triggers_is_trigger_met(trig_value, trig_config)]
    /\ UNCHANGED <<trig_value, trig_config, pmVars, telVars, recVars, ncVars>>

----------------------------------------------------------------------------
\* Non-counter channel: efd_monitor.monitor_subsystem, branch of lines 227-242

\* a float reading w.f (one decimal digit); the registry holds whole numbers
Reading(w, f) == [w |-> w, f |-> f]
NoReading == Reading(NoneV, 0)

\* what query_latest_influx_value may return as the latest value
FetchValues == {Reading(2, 0), Reading(2, 7), Reading(3, 0)}

\* int(value) of update_cmms_attribute's payload
IntOf(r) == Reading(r.w, 0)

NoPlainCycle ==
    [got |-> NoReading, wrote |-> NoReading, putOk |-> FALSE, ckpt |-> NoneV]

\* "if value is not None": publish, else warn and go to sleep
PlainAlwaysPut(v) == "put"
PlainNext(v) == IF v # NoReading THEN "put" ELSE "sleep"

\* query_latest_influx_value ran (synchronously): a value, None for an empty
\* result, or an exception that line 241 catches
NcFetch ==
    /\ ncPc = "fetch"
    /\ \E outcome \in {"value", "none", "error"} :
         \E v \in (IF outcome = "value" THEN FetchValues ELSE {NoReading}) :
            /\ ncValue' = v
            /\ ncCyc' = [NoPlainCycle EXCEPT !.got = v, !.ckpt = ckptFile]
            /\ ncPc' = IF outcome = "error" THEN "sleep" ELSE PlainNext(v)
    /\ UNCHANGED <<ncAttr, pmVars, telVars, recVars, trigVars>>

\* update_cmms_attribute: the PUT of int(value) reached the registry or failed
NcPut ==
    /\ ncPc = "put"
    /\ \E ok \in BOOLEAN :
         /\ ncAttr' = IF ok THEN IntOf(ncValue) ELSE ncAttr
         /\ ncCyc' = [ncCyc EXCEPT !.wrote = IntOf(ncValue), !.putOk = ok]
    /\ ncPc' = "sleep"
    /\ UNCHANGED <<ncValue, pmVars, telVars, recVars, trigVars>>

\* asyncio.sleep(60) of the channel is over
NcSleep ==
    /\ ncPc = "sleep"
    /\ ncPc' = "fetch"
    /\ UNCHANGED <<ncValue, ncAttr, ncCyc, pmVars, telVars, recVars, trigVars>>

----------------------------------------------------------------------------
\* Specifications

InitPMLists ==
    { <<>>,
      <<PM(1, "c1", "Acceptance")>>,
      <<PM(1, "c1", "Aborted")>>,
      <<PM(1, "c3", "ABORTED"), PM(2, "c1", "aborted")>>,
      <<PM(1, "c1", "aborted"), PM(2, "c1", "Processing")>> }

PMRest ==
    /\ pmPc = "fetch"
    /\ configs = <<>>
    /\ idx = 1
    /\ asset_value = PyNone
    /\ new_pm_id = 0
    /\ activity_id = 0
    /\ listResp = [c \in ConfigIds |-> NoResp]
    /\ reqs = {}
    /\ read_chan = 0

PMIdle ==
    /\ PMRest
    /\ calm = FALSE

TelemetryEmpty ==
    /\ series = <<>>
    /\ lastActive = FALSE
    /\ totalAct = 0

RecStart(ts) ==
    /\ tasks = ts
    /\ recPc = [t \in TaskIds |-> "poll"]
    /\ activation_count = [t \in TaskIds |-> 0]
    /\ cmms_value = [t \in TaskIds |-> 0]
    /\ last_cmms_value = [t \in TaskIds |-> NoneV]
    /\ last_activation_count = [t \in TaskIds |-> NoneV]
    /\ updated_value = [t \in TaskIds |-> 0]
    /\ cyc = [t \in TaskIds |-> BlankCycle]
    /\ prev = [t \in TaskIds |-> NoCycle]
    /\ added = 0
    /\ laterPubs = 0
    /\ crashes = 0
    /\ failed = FALSE
    /\ sentFloor = [t \in TaskIds |-> NoneV]
    /\ loads = [t \in TaskIds |-> 0]
    /\ savedCount = NoneV
    /\ carried = NoneV

\* no call of is_trigger_met yet
TrigIdle ==
    /\ trig_value = PyNone
    /\ trig_config = TriggerConfig("t", PyNone, PyNone, PyNone, PyNone, PyNone)
    /\ trig_result = TrigPending

\* the non-counter channel, started or not
PlainStart(pc) ==
    /\ ncPc = pc
    /\ ncValue = NoReading
    /\ ncAttr = NoReading
    /\ ncCyc = NoPlainCycle

\* the PM sweep against the registry
InitPM ==
    /\ pms \in InitPMLists
    /\ PMIdle
    /\ TelemetryEmpty
    /\ cmms = NoneV
    /\ ckptFile = NoneV
    /\ RecStart({})
    /\ TrigIdle
    /\ PlainStart("off")

NextPM ==
    \/ GetConfigs
    \/ GetAttribute
    \/ CheckExisting
    \/ CreateLookup
    \/ CreatePost
    \/ AdvActivities
    \/ AdvPut
    \/ PMSleep
    \/ RegistryAbort

SpecPM == InitPM /\ [][NextPM]_vars

\* the sweep with a registry that may become calm for good; the event loop
\* resumes the sweep coroutine whenever the call it awaits has completed
Sweep ==
    \/ GetConfigs
    \/ GetAttribute
    \/ CheckExisting
    \/ CreateLookup
    \/ CreatePost
    \/ AdvActivities
    \/ AdvPut
    \/ PMSleep

NextLive ==
    \/ Sweep
    \/ RegistryAbort
    \/ Heal

SpecLive == InitPM /\ [][NextLive]_vars /\ WF_vars(Sweep)

\* one counter channel, the telemetry and the registry counter
InitCmms  == {NoneV, 10}
InitCkpts == {NoneV, 1}

InitRec ==
    /\ pms = <<>>
    /\ PMIdle
    /\ TelemetryEmpty
    /\ cmms \in InitCmms
    /\ ckptFile \in InitCkpts
    /\ RecStart({1})
    /\ TrigIdle
    /\ PlainStart("off")

NextRec ==
    \/ WriteSample
    \/ SlideWindow
    \/ \E t \in TaskIds : Poll(t)
    \/ \E t \in TaskIds : GetCmms(t)
    \/ \E t \in TaskIds : UpdateCmms(t)
    \/ \E t \in TaskIds : SaveFirst(t)
    \/ \E t \in TaskIds : SaveLater(t)
    \/ \E t \in TaskIds : RecSleep(t)

SpecRec == InitRec /\ [][NextRec]_vars

\* the same, with abrupt termination and restart of the process
NextCrash ==
    \/ NextRec
    \/ Crash

SpecCrash == InitRec /\ [][NextCrash]_vars

\* the same channel, started over a registry attribute that may hold a
\* value that is no number and over a checkpoint file that may be unparsable
InitFault ==
    /\ pms = <<>>
    /\ PMIdle
    /\ TelemetryEmpty
    /\ cmms \in InitCmms \cup {OddV}
    /\ ckptFile \in InitCkpts \cup {Unreadable}
    /\ RecStart({1})
    /\ TrigIdle
    /\ PlainStart("off")

SpecFault == InitFault /\ [][NextRec]_vars

\* the channel with another party writing the same registry attribute
NextForeign ==
    \/ NextRec
    \/ ForeignWrite

SpecForeign == InitRec /\ [][NextForeign]_vars

\* two counter channels of one process configured with the same asset id:
\* one registry attribute, one checkpoint file, the same telemetry; every
\* remote call is answered, so that the runs differ by their interleaving
InitPair ==
    /\ pms = <<>>
    /\ PMRest
    /\ calm = TRUE
    /\ TelemetryEmpty
    /\ cmms \in InitCmms
    /\ ckptFile \in InitCkpts
    /\ RecStart({1, 2})
    /\ TrigIdle
    /\ PlainStart("off")

\* the two tasks overlap within one span of the lookback window: samples
\* arrive, none leaves the window
NextPair ==
    \/ WriteSample
    \/ \E t \in TaskIds : Poll(t)
    \/ \E t \in TaskIds : GetCmms(t)
    \/ \E t \in TaskIds : UpdateCmms(t)
    \/ \E t \in TaskIds : SaveFirst(t)
    \/ \E t \in TaskIds : SaveLater(t)
    \/ \E t \in TaskIds : RecSleep(t)

SpecPair == InitPair /\ [][NextPair]_vars

\* one channel of main's task list on its own: the counter channel or a
\* non-counter channel (the channels share no asset and no local)
InitChan ==
    /\ pms = <<>>
    /\ PMIdle
    /\ TelemetryEmpty
    /\ cmms \in InitCmms
    /\ ckptFile \in InitCkpts
    /\ TrigIdle
    /\ \/ RecStart({1}) /\ PlainStart("off")
       \/ RecStart({}) /\ PlainStart("fetch")

NextChan ==
    \/ NextRec
    \/ NcFetch
    \/ NcPut
    \/ NcSleep

SpecChan == InitChan /\ [][NextChan]_vars

\* get_shutter_activations applied to every short series of samples
MaxEdgeLen == 5

EdgeSamples == Samples \cup {Sample(95, 0)}
EdgeSeries  == UNION {[1..n -> EdgeSamples] : n \in 0..MaxEdgeLen}

InitEdge ==
    /\ pms = <<>>
    /\ PMIdle
    /\ series \in EdgeSeries
    /\ lastActive = (series # <<>> /\ Activity(series[Len(series)]))
    /\ totalAct = 0
    /\ cmms = NoneV
    /\ ckptFile = NoneV
    /\ RecStart({1})
    /\ TrigIdle
    /\ PlainStart("off")

NextEdge == \E t \in TaskIds : Poll(t)

SpecEdge == InitEdge /\ [][NextEdge]_vars

\* is_trigger_met applied to every value and config of the bounded sets
InitTrig ==
    /\ pms = <<>>
    /\ PMIdle
    /\ TelemetryEmpty
    /\ cmms = NoneV
    /\ ckptFile = NoneV
    /\ RecStart({})
    /\ PlainStart("off")
    /\ trig_value \in TrigValues
    /\ trig_config \in TrigConfigs
    /\ trig_result = TrigPending

NextTrig == EvalTrigger

SpecTrig == InitTrig /\ [][NextTrig]_vars

\* the same calls, made to triggers.is_trigger_met as well
NextTwin == EvalTwin

SpecTwin == InitTrig /\ [][NextTwin]_vars

----------------------------------------------------------------------------
\* Properties of the PM sweep (SpecPM)

NonAbortedOf(c) ==
    {i \in 1..Len(pms) : pms[i].cfg = c /\ pms[i].status \notin AbortedNames}

\* C1: for every trigger-config id the registry holds, in every reachable
\* state, at most one PM instance of that config whose status is not
\* 'aborted' -- also when registry calls of the sweep fail.
C1_AtMostOneOpenPM ==
    \A c \in ConfigIds : Cardinality(NonAbortedOf(c)) <= 1

\* C2: when the PM list returned for a config in this cycle held an instance
\* of the config with a status other than 'aborted' (any letter case), the
\* cycle issues neither a creation nor an advance request for that config.
C2_OpenPMBlocksCreation ==
    \A c \in ConfigIds :
        (listResp[c].k = "data" /\ listResp[c].open)
            => \A r \in reqs : r.cfg # c

\* the cycle is over, c1 was checked and its list held an open PM
C2_Witness ==
    /\ pmPc = "sleep"
    /\ listResp["c1"].k = "data"
    /\ listResp["c1"].open
    /\ \A r \in reqs : r.cfg # "c1"

OwnedAllAborted(c) ==
    \A i \in 1..Len(pms) : pms[i].cfg = c => pms[i].status \in AbortedNames

\* C3: when CHECK_EXISTING runs for a config (its trigger was met) and every
\* PM instance of the config is 'aborted' in whatever letter case, the
\* controller is not blocked: its next step is CREATE_PM for that config.
C3_AbortedNeverBlocks ==
    [][ (/\ pmPc = "check_existing"
         /\ pmPc' # "check_existing"
         /\ OwnedAllAborted(configs[idx].id))
        => (pmPc' = "create_lookup" /\ idx' = idx) ]_vars

\* the list held PMs of c1, all aborted, and the sweep is in CREATE_PM of c1
C3_Witness ==
    /\ pmPc = "create_lookup"
    /\ configs[idx].id = "c1"
    /\ listResp["c1"].k = "data"
    /\ listResp["c1"].owned
    /\ ~listResp["c1"].open

----------------------------------------------------------------------------
\* Properties of the counter channel (SpecRec, SpecCrash)

AbsentAsZero(x) == IF x = NoneV THEN 0 ELSE x

CycleDone(t) == t \in tasks /\ recPc[t] = "sleep"

\* C4: whenever the fresh window count of a cycle is above the checkpoint,
\* the cycle publishes registry value + (fresh - checkpoint), an absent
\* registry value counting as 0, and leaves the checkpoint at the fresh count.
\* Stated for the runs in which no telemetry or registry call has failed.
C4_PublishesRegistryPlusDelta ==
    \A t \in TaskIds :
        (CycleDone(t) /\ ~failed /\ cyc[t].fresh > AbsentAsZero(cyc[t].ckpt))
            => /\ cyc[t].pub = AbsentAsZero(cyc[t].reg)
                                 + (cyc[t].fresh - AbsentAsZero(cyc[t].ckpt))
               /\ ckptFile = cyc[t].fresh

\* C5: whenever the fresh window count of a cycle is at most the checkpoint,
\* the cycle publishes nothing and leaves the checkpoint file as it was.
\* Stated for the runs in which no telemetry or registry call has failed.
C5_NoPublishAtOrBelowCheckpoint ==
    \A t \in TaskIds :
        (CycleDone(t) /\ ~failed /\ cyc[t].fresh <= AbsentAsZero(cyc[t].ckpt))
            => (cyc[t].pub = NoneV /\ ckptFile = cyc[t].ckpt)

\* C6: the first cycle of a process that finds no checkpoint record and gets
\* None for the registry value, with a fresh window count n > 0, publishes n
\* and leaves the checkpoint at n.
C6_FirstRunPublishesFresh ==
    \A t \in TaskIds :
        (/\ CycleDone(t)
         /\ cyc[t].first
         /\ cyc[t].ckpt = NoneV
         /\ cyc[t].reg = NoneV
         /\ cyc[t].fresh > 0)
            => (cyc[t].pub = cyc[t].fresh /\ ckptFile = cyc[t].fresh)

\* a first run without checkpoint and registry value that saw 2 activations
C6_Witness ==
    /\ CycleDone(1)
    /\ cyc[1].first
    /\ cyc[1].ckpt = NoneV
    /\ cyc[1].reg = NoneV
    /\ cyc[1].fresh = 2
    /\ cyc[1].putOk
    /\ cmms = 2

\* C7: after a cycle that published for the fresh count c, a following cycle
\* of the same process that sees the same count c publishes nothing and adds
\* nothing to the registry counter: the counter never exceeds its start value
\* plus the activations.  Stated for the runs without any failed call.
C7_SameCountNotRepublished ==
    \A t \in TaskIds :
        (/\ CycleDone(t)
         /\ ~failed
         /\ prev[t].pub # NoneV
         /\ cyc[t].fresh = prev[t].fresh)
            => (cyc[t].pub = NoneV /\ added <= totalAct)

\* C8: across an abrupt termination and restart the registry counter never
\* receives more than the number of new activations.  Stated for the runs in
\* which every accepted publish was one of a first cycle of a process, so that
\* only the crash separates the publishes.
C8_CrashNeverDoubleCounts ==
    laterPubs = 0 => added <= totalAct

\* C9: the checkpoint file is advanced only in a cycle whose registry publish
\* succeeded; after a failed publish it still holds its previous value.
C9_CheckpointOnlyAfterPublish ==
    \A t \in TaskIds :
        (CycleDone(t) /\ cyc[t].pub # NoneV /\ ~cyc[t].putOk)
            => ckptFile = cyc[t].ckpt

\* C10: across overlapping lookback windows every activation that appeared in
\* the telemetry is added to the registry counter exactly once: after a cycle
\* that saw all activations, in a run without any failed call, the registry
\* counter has grown by the number of activations.
C10_RunningTotal ==
    \A t \in TaskIds :
        (CycleDone(t) /\ ~failed /\ cyc[t].seen = totalAct)
            => added = totalAct

\* C11: within one process lifetime the values published for the counter
\* channel are strictly increasing: every value sent is greater than the one
\* sent before it, or, for the first one, than the registry value read on the
\* first cycle (an absent value counting as 0).
C11_PublishedStrictlyIncreasing ==
    [][ \A t \in TaskIds :
          cyc'[t].pub # cyc[t].pub /\ cyc'[t].pub # NoneV
             => cyc'[t].pub > AbsentAsZero(sentFloor[t]) ]_vars

\* two consecutive cycles of the process published, the second one more
C11_Witness ==
    /\ CycleDone(1)
    /\ prev[1].pub # NoneV
    /\ cyc[1].pub # NoneV
    /\ cyc[1].pub > prev[1].pub
    /\ sentFloor[1] = cyc[1].pub

----------------------------------------------------------------------------
\* Properties of the edge counter (SpecEdge)

\* get_shutter_activations has returned to the channel, the query succeeded
Counted(t) == t \in tasks /\ recPc[t] = "get_cmms" /\ ~failed

ActivityOf(rows) == [i \in 1..Len(rows) |-> Activity(rows[i])]

EdgeIndices(flag) ==
    {i \in 1..Len(flag) : flag[i] /\ (i = 1 \/ ~flag[i - 1])}

\* C12: for every time-ordered series the edge counter returns the number of
\* indices i whose activity flag is true while the flag at i-1 is false, the
\* flag before the first sample being false; [True] gives 1 and
\* [False, True, True, False, True] gives 2.
C12_CountsRisingEdges ==
    \A t \in TaskIds :
        Counted(t) =>
            LET flag == ActivityOf(series)
            IN /\ activation_count[t] = Cardinality(EdgeIndices(flag))
               /\ flag = <<TRUE>> => activation_count[t] = 1
               /\ flag = <<FALSE, TRUE, TRUE, FALSE, TRUE>>
                     => activation_count[t] = 2

\* the counter was applied to a series with the flags F T T F T
C12_Witness ==
    /\ Counted(1)
    /\ ActivityOf(series) = <<FALSE, TRUE, TRUE, FALSE, TRUE>>
    /\ activation_count[1] = 2

\* C13: for an empty series the edge counter returns an explicit no-data
\* result, which differs from the 0 it returns for a non-empty series without
\* activations.
C13_EmptyGivesNoData ==
    \A t \in TaskIds :
        (Counted(t) /\ series = <<>>) => activation_count[t] # 0

----------------------------------------------------------------------------
\* Properties of the trigger evaluator (SpecTrig)

Evaluated == trig_result # TrigPending

FieldOrder ==
    <<"trigger_integer", "trigger_string", "trigger_time", "trigger_True_False">>

IsSet(config, k) == TriggerField(config, FieldOrder[k]) # PyNone

\* index of the first non-null trigger field in the fixed order, 0 if none
FirstSet(config) ==
    IF \E k \in 1..Len(FieldOrder) : IsSet(config, k)
    THEN CHOOSE k \in 1..Len(FieldOrder) :
            IsSet(config, k) /\ \A j \in 1..(k - 1) : ~IsSet(config, j)
    ELSE 0

AgreeUpTo(c1, c2, k) ==
    \A j \in 1..k :
        TriggerField(c1, FieldOrder[j]) = TriggerField(c2, FieldOrder[j])

\* C14: the trigger fields are inspected in the order numeric, string,
\* time-string, boolean; the first non-null one alone determines the result:
\* every config that agrees with the evaluated one up to that field gives the
\* same result for the value, whatever its later fields hold.
C14_FirstSetFieldDecides ==
    Evaluated =>
        LET k == FirstSet(trig_config)
        IN k # 0 =>
             \A c2 \in TrigConfigs :
                 AgreeUpTo(trig_config, c2, k)
                     => is_trigger_met(trig_value, c2) = trig_result.ret

\* numeric and string trigger both set, the value meets only the numeric one
C14_Witness ==
    /\ Evaluated
    /\ trig_config.trigger_integer = PyFloat(12)
    /\ trig_config.trigger_string = PyStr("open")
    /\ trig_value = PyStr("12")
    /\ trig_result.ret

\* C15: for every trigger config, is_trigger_met with a null value returns
\* false with a warning and nothing else: no exception reaches the caller.
C15_NullValueIsFalse ==
    (Evaluated /\ trig_value = PyNone)
        => /\ ~trig_result.ret
           /\ trig_result.log \in {"WARN Value is None", "WARN No valid trigger"}

\* the null value was evaluated against a boolean trigger with target False
C15_Witness ==
    /\ Evaluated
    /\ trig_value = PyNone
    /\ FirstSet(trig_config) = Len(FieldOrder)
    /\ trig_config.trigger_True_False = PyBool(FALSE)
    /\ trig_result = [ret |-> FALSE, log |-> "WARN Value is None"]

\* the same for the sweep: a cycle whose attribute read gave None is in none
\* of the steps CHECK_EXISTING .. ADVANCE_PM for that config (SpecPM)
SweepSkipsUnreadValue ==
    pmPc \in {"check_existing", "create_lookup", "create_post",
              "adv_activities", "adv_put"}
        => asset_value # PyNone

\* the configs of the registry without any trigger field
InertIds ==
    {RegistryConfigs[i].id : i \in {j \in 1..Len(RegistryConfigs) :
                                       FirstSet(RegistryConfigs[j]) = 0}}

InSweepStep ==
    pmPc \in {"check_existing", "create_lookup", "create_post",
              "adv_activities", "adv_put"}

\* C17: a config with none of the four trigger fields set is inert (SpecPM):
\* is_trigger_met returns false for every value the sweep reads and prints
\* the misconfiguration warning, and no cycle issues CHECK_EXISTING,
\* CREATE_PM or ADVANCE_PM for it.
C17_InertConfigNeverFires ==
    \A c \in InertIds :
        /\ (Evaluated /\ trig_config.id = c)
              => trig_result = [ret |-> FALSE, log |-> "WARN No valid trigger"]
        /\ InSweepStep => configs[idx].id # c
        /\ listResp[c] = NoResp
        /\ \A r \in reqs : r.cfg # c

\* the sweep evaluated the inert config c5 on a value it read and went on
C17_Witness ==
    /\ pmPc = "sleep"
    /\ "c5" \in InertIds
    /\ trig_config.id = "c5"
    /\ trig_value = PyStr("open")
    /\ trig_result = [ret |-> FALSE, log |-> "WARN No valid trigger"]

\* the same for a call on its own and every value (SpecTrig)
InertConfigIsFalse ==
    (Evaluated /\ FirstSet(trig_config) = 0)
        => trig_result = [ret |-> FALSE, log |-> "WARN No valid trigger"]

NumericLiterals == {"12", "2", "2.0", "1", "0"}

\* can Python coerce v to the comparison type of trigger field k
Coercible(k, v) ==
    FieldOrder[k] = "trigger_integer"
        => (v.t \in {"int", "float", "bool"}
            \/ (v.t = "str" /\ v.s \in NumericLiterals))

\* C16: when the value or the target of the selected trigger kind cannot be
\* coerced to the comparison type of that kind, is_trigger_met returns false
\* with a casting warning; no exception reaches the caller.
C16_CastFailureIsFalse ==
    Evaluated =>
        LET k == FirstSet(trig_config)
        IN (/\ k # 0
            /\ trig_value # PyNone
            /\ \/ ~Coercible(k, trig_value)
               \/ ~Coercible(k, TriggerField(trig_config, FieldOrder[k])))
           => trig_result = [ret |-> FALSE, log |-> "WARN Failed casting"]

\* a non-numeric string was evaluated against a numeric trigger
C16_Witness ==
    /\ Evaluated
    /\ trig_value = PyStr("abc")
    /\ trig_config.trigger_integer = PyFloat(12)
    /\ trig_result = [ret |-> FALSE, log |-> "WARN Failed casting"]

\* the number a value stands for (NoneV: it stands for none)
NumberOf(v) ==
    CASE v.t \in {"int", "float", "bool"} -> v.n
      [] v.t = "str" /\ v.s = "12"        -> 12
      [] v.t = "str" /\ v.s \in {"2", "2.0"} -> 2
      [] v.t = "str" /\ v.s = "1"         -> 1
      [] v.t = "str" /\ v.s = "0"         -> 0
      [] OTHER                            -> NoneV

\* the text of a value: str() leaves a string as it is
TextOf(v) == IF v.t = "str" THEN v.s ELSE StrOf(v)

\* value and target are equal after the cast of trigger field k
EqualAs(k, value, target) ==
    CASE FieldOrder[k] = "trigger_integer" ->
            /\ NumberOf(value) # NoneV
            /\ NumberOf(value) = NumberOf(target)
      [] FieldOrder[k] \in {"trigger_string", "trigger_time"} ->
            TextOf(value) = TextOf(target)
      [] OTHER ->
            (Lower(TextOf(value)) \in {"true", "1"})
                = (Lower(TextOf(target)) \in {"true", "1"})

\* C18: is_trigger_met returns true exactly when the value and the target of
\* the selected kind are equal after casting both to that kind: equal numbers
\* for a numeric trigger ("12" meets 12.0), the same text, letter case
\* included, for string and time-string triggers ("open" meets "open", "Open"
\* does not); there is no tolerance.
C18_ExactEqualityAfterCast ==
    Evaluated =>
        LET k == FirstSet(trig_config)
        IN trig_result.ret
             <=> (/\ k # 0
                  /\ trig_value # PyNone
                  /\ EqualAs(k, trig_value,
                             TriggerField(trig_config, FieldOrder[k])))

\* "12" was evaluated against the numeric target 12.0 and met it
C18_Witness ==
    /\ Evaluated
    /\ trig_value = PyStr("12")
    /\ FirstSet(trig_config) = 1
    /\ trig_config.trigger_integer = PyFloat(12)
    /\ trig_result = [ret |-> TRUE, log |-> ""]

\* "Open" was evaluated against the string target "open" and did not meet it
OpenDoesNotMeetLowerCase ==
    (/\ Evaluated
     /\ trig_value = PyStr("Open")
     /\ FirstSet(trig_config) \in {2, 3}
     /\ trig_config.trigger_string = PyStr("open"))
        => ~trig_result.ret

----------------------------------------------------------------------------
\* Properties of the channels (SpecChan)

\* the cycle of the non-counter channel is over
PlainDone == ncPc = "sleep"

\* C19: every cycle of a non-counter channel whose telemetry fetch returned a
\* value issues a registry write of just that value, whatever earlier cycles
\* published, and leaves the checkpoint store alone.
C19_PlainChannelPassesThrough ==
    (PlainDone /\ ncCyc.got # NoReading)
        => (ncCyc.wrote = ncCyc.got /\ ckptFile = ncCyc.ckpt)

\* C20: a cycle whose telemetry query returned no data is skipped: after the
\* query the channel is waiting for its next cycle, it has issued no registry
\* write and the checkpoint file is what it was.  For the counter channel and
\* for a non-counter channel.
C20_NoDataSkipsCycle ==
    /\ \A t \in TaskIds :
          (t \in tasks /\ recPc[t] \notin {"poll", "get_cmms"} /\ cyc[t].empty)
              => /\ recPc[t] = "sleep"
                 /\ ENABLED RecSleep(t)
                 /\ cyc[t].pub = NoneV
                 /\ ckptFile = cyc[t].ckpt
    /\ (ncPc \notin {"off", "fetch"} /\ ncCyc.got = NoReading)
          => /\ ncPc = "sleep"
             /\ ENABLED NcSleep
             /\ ncCyc.wrote = NoReading
             /\ ~ncCyc.putOk
             /\ ckptFile = ncCyc.ckpt

\* a non-counter channel that published before got no data in this cycle
C20_Witness ==
    /\ PlainDone
    /\ ncCyc.got = NoReading
    /\ ncCyc.wrote = NoReading
    /\ ncAttr # NoReading

\* the counter channel saw an empty window after a cycle that published
NoDataAfterPublish ==
    /\ CycleDone(1)
    /\ cyc[1].empty
    /\ cyc[1].pub = NoneV
    /\ prev[1].pub # NoneV

----------------------------------------------------------------------------
\* Further properties of the PM sweep (SpecPM)

MonitoredAssetIds ==
    {config_with_interval[i].asset_id : i \in 1..Len(config_with_interval)}

\* the configs of the registry whose asset is missing or has no channel
UnmonitoredIds ==
    {RegistryConfigs[i].id :
        i \in {j \in 1..Len(RegistryConfigs) :
                 \/ RegistryConfigs[j].Asset_related = PyNone
                 \/ StrOf(RegistryConfigs[j].Asset_related)
                       \notin MonitoredAssetIds}}

\* C21: a config whose asset id is missing or matches no monitored channel
\* never leads to an attribute read, CHECK_EXISTING or CREATE_PM: the sweep
\* is never in a step for it, never evaluated its trigger, and the cycle holds
\* no query outcome and no request for it.
C21_UnmonitoredConfigSkipped ==
    \A c \in UnmonitoredIds :
        /\ (pmPc = "get_attr" \/ InSweepStep) => configs[idx].id # c
        /\ Evaluated => trig_config.id # c
        /\ listResp[c] = NoResp
        /\ \A r \in reqs : r.cfg # c

\* the sweep evaluated c1, passed c2 (no asset) and reads the attribute of c3
C21_Witness ==
    /\ UnmonitoredIds = {"c2", "c4"}
    /\ configs = RegistryConfigs
    /\ pmPc = "get_attr"
    /\ configs[idx].id = "c3"
    /\ trig_config.id = "c1"

Req(kind, c) == [kind |-> kind, cfg |-> c]

\* C23: ADVANCE_PM on a PM instance whose activity list is empty fails: no
\* advance request is submitted to the registry for it.
C23_EmptyActivitiesNoAdvance ==
    \A c \in ConfigIds :
        listResp[c].acts = "empty"
            => /\ Req("advance", c) \notin reqs
               /\ ~(pmPc = "adv_put" /\ configs[idx].id = c)

\* the PM of c1 was created in this cycle, its activity list came back empty
C23_Witness ==
    /\ pmPc = "sleep"
    /\ listResp["c1"].acts = "empty"
    /\ Req("create", "c1") \in reqs
    /\ Req("advance", "c1") \notin reqs

StepInto(pc) == pmPc # pc /\ pmPc' = pc

\* the step is one of the sweep, not of the registry's workflow
SweepMoved ==
    ~UNCHANGED <<pmPc, configs, idx, asset_value, new_pm_id, activity_id,
                 listResp, reqs, trigVars>>

\* C25: within one sweep cycle the steps of a config run at most once each
\* and in the order CHECK_TRIGGER, CHECK_EXISTING, CREATE_PM, ADVANCE_PM:
\* CHECK_EXISTING only after the trigger was met, CREATE_PM only after
\* CHECK_EXISTING reported no open PM, ADVANCE_PM only after CREATE_PM
\* returned an instance id; no step is repeated and no config is evaluated
\* again in the cycle.
C25_StepsInOrderOnce ==
    [][ LET c == configs[idx].id
        IN /\ StepInto("check_existing")
                => /\ pmPc = "get_attr" /\ idx' = idx
                   /\ trig_config'.id = c /\ trig_result'.ret
                   /\ listResp[c] = NoResp
           /\ StepInto("create_lookup")
                => /\ pmPc = "check_existing" /\ idx' = idx
                   /\ listResp[c].k = "none" /\ listResp'[c].k # "none"
                   /\ ~(listResp'[c].k = "data" /\ listResp'[c].open)
           /\ StepInto("create_post")
                => /\ pmPc = "create_lookup" /\ idx' = idx
                   /\ listResp[c].lookup = "none"
           /\ StepInto("adv_activities")
                => /\ pmPc = "create_post" /\ idx' = idx
                   /\ new_pm_id' # 0
                   /\ listResp[c].acts = "none"
           /\ StepInto("adv_put")
                => pmPc = "adv_activities" /\ idx' = idx
           /\ (reqs' # reqs /\ pmPc # "fetch")
                => \/ /\ pmPc = "create_post"
                      /\ Req("create", c) \notin reqs
                      /\ reqs' = reqs \cup {Req("create", c)}
                   \/ /\ pmPc = "adv_put"
                      /\ new_pm_id # 0
                      /\ Req("create", c) \in reqs
                      /\ Req("advance", c) \notin reqs
                      /\ reqs' = reqs \cup {Req("advance", c)}
           /\ (SweepMoved /\ pmPc \notin {"fetch", "sleep"})
                => /\ idx' >= idx
                   /\ pmPc' = "get_attr" => idx' > idx ]_vars

\* all four steps ran for c1 in this cycle, which is over
C25_Witness ==
    /\ pmPc = "sleep"
    /\ trig_config.id # "c1"
    /\ listResp["c1"].k = "data"
    /\ listResp["c1"].lookup = "data"
    /\ listResp["c1"].acts = "activity"
    /\ {Req("create", "c1"), Req("advance", "c1")} \subseteq reqs

\* C26: when a registry call made while evaluating a config failed in this
\* cycle -- the PM-list query of CHECK_EXISTING or the by-id lookup -- the
\* cycle issues no PM creation request for that config.
C26_FailedCallSkipsCreation ==
    \A c \in ConfigIds :
        (listResp[c].k = "fail" \/ listResp[c].lookup = "fail")
            => Req("create", c) \notin reqs

\* C28: the creation request is submitted only after the by-id lookup of the
\* config returned a record; when the lookup fails or is empty, or the
\* creation request fails, no instance id is returned and ADVANCE_PM is not
\* attempted in that cycle.
C28_CreateAfterLookupOnly ==
    [][ LET c == configs[idx].id
        IN /\ reqs' \ reqs # {}
                => \/ pmPc = "adv_put"
                   \/ pmPc = "create_post" /\ listResp[c].lookup = "data"
           /\ (pmPc = "create_lookup" /\ SweepMoved
                  /\ listResp'[c].lookup = "fail")
                => /\ new_pm_id' = 0
                   /\ reqs' = reqs
                   /\ pmPc' \in {"get_attr", "sleep"}
                   /\ idx' > idx
           /\ (pmPc = "create_post" /\ SweepMoved)
                => /\ pms' = pms => new_pm_id' = 0
                   /\ new_pm_id' = 0
                        => (pmPc' \in {"get_attr", "sleep"} /\ idx' > idx)
           /\ StepInto("adv_activities")
                => /\ pmPc = "create_post"
                   /\ new_pm_id' # 0
                   /\ pms'[new_pm_id'].cfg = c ]_vars

\* the lookup of c1 failed in this cycle: no request at all for c1
C28_Witness ==
    /\ pmPc = "sleep"
    /\ listResp["c1"].k = "data"
    /\ listResp["c1"].lookup = "fail"
    /\ listResp["c1"].acts = "none"
    /\ \A r \in reqs : r.cfg # "c1"

----------------------------------------------------------------------------
\* Liveness of the PM sweep (SpecLive)

\* C29: when a cycle starts with the registry calm for good (every call
\* succeeds, the trigger of c1 stays met), no non-aborted PM of c1 exists and
\* the registry has room for an instance, then under weak fairness of the
\* sweep a PM of c1 is eventually created -- whatever failed before.
C29_RetryEventuallyCreates ==
    (/\ calm
     /\ pmPc = "fetch"
     /\ NonAbortedOf("c1") = {}
     /\ Len(pms) < MaxPMs)
        ~> (NonAbortedOf("c1") # {})

\* the registry is calm and c1 got its PM in this cycle, after an aborted one
C29_Witness ==
    /\ calm
    /\ Req("create", "c1") \in reqs
    /\ NonAbortedOf("c1") # {}
    /\ \E i \in 1..Len(pms) :
          pms[i].cfg = "c1" /\ pms[i].status \in AbortedNames

----------------------------------------------------------------------------
\* C22: no failure inside one cycle of a channel (a failed remote call, a
\* registry value of an unexpected type, a failed cast) ends the channel's
\* task or any other task: no task is ever dead.
C22_NoFailureEndsTask == \A t \in tasks : recPc[t] # "dead"

\* C24: a process reads the checkpoint file once only, in its first cycle
\* and before anything was published; an absent or unparsable file reads
\* as 0; the file is written only after the cycle's delta was computed and
\* its value sent, and it then holds the count that cycle saw.
SaveStep(t) == recPc[t] \in {"save_first", "save_later"}

C24_CheckpointReadOnce ==
    [][ /\ \A t \in tasks :
             loads'[t] # loads[t] =>
                 /\ loads[t] = 0
                 /\ loads'[t] = 1
                 /\ cyc'[t].first
                 /\ cyc[t].pub = NoneV
                 /\ prev[t].pub = NoneV
                 /\ sentFloor[t] = NoneV
                 /\ ckptFile \in {NoneV, Unreadable} =>
                        last_activation_count'[t] = 0
                 /\ ckptFile \notin {NoneV, Unreadable} =>
                        last_activation_count'[t] = ckptFile
        /\ ckptFile' # ckptFile =>
             \E t \in tasks :
                 /\ SaveStep(t)
                 /\ cyc[t].pub # NoneV
                 /\ cyc[t].pub = updated_value[t]
                 /\ ckptFile' = cyc[t].fresh
      ]_vars

C24_Witness ==
    /\ loads[1] = 1
    /\ cyc[1].first
    /\ cyc[1].ckpt = Unreadable
    /\ last_activation_count[1] = 0
    /\ recPc[1] = "sleep"
    /\ ckptFile = cyc[1].fresh
    /\ ckptFile > 0

\* C27: a cycle whose read of the registry counter failed is skipped: it
\* sends nothing and reaches no save of the checkpoint.
C27_FailedReadSkipsCycle ==
    \A t \in tasks :
        cyc[t].regFail =>
            /\ cyc[t].pub = NoneV
            /\ recPc[t] \notin {"put_first", "put_later",
                                 "save_first", "save_later"}

----------------------------------------------------------------------------
\* C31: every write of the checkpoint file stores a count strictly greater
\* than the one the file holds at that moment (an absent file counting as
\* 0).  Stated for the runs without any failed call.
C31_CheckpointStrictlyGrows ==
    [][ \A t \in tasks :
            (SaveStep(t) /\ recPc'[t] = "sleep" /\ ~failed)
                => ckptFile' > AbsentAsZero(ckptFile)
      ]_vars

\* C32: two counter channels on the same asset id add to the registry
\* counter what one channel reconciling once would add: never more than the
\* number of new activations.  Stated for the runs without any failed call
\* in which every accepted publish was one of a first cycle of a task, so
\* that only the overlap of the two tasks separates the publishes.
C32_SharedAssetAddsOnce ==
    (tasks = {1, 2} /\ ~failed /\ laterPubs = 0) => added <= totalAct

\* C33: a publishing cycle after the first of a process sends the value
\* held in memory (the first registry read, or the value sent last) plus
\* (fresh count - last seen count); the registry value read in that cycle
\* plays no part, and an accepted publish replaces whatever another party
\* wrote to the attribute.
C33_LaterCycleIgnoresRegistryRead ==
    [][ \A t \in tasks :
          /\ (recPc[t] = "get_cmms" /\ recPc'[t] = "put_later") =>
                 updated_value'[t] =
                     NoneToZero(sentFloor[t])
                       + (cyc[t].fresh - last_activation_count[t])
          /\ (recPc[t] = "put_later" /\ recPc'[t] = "save_later"
                 /\ cyc'[t].putOk) =>
                 cmms' = NoneToZero(sentFloor[t])
                           + (cyc[t].fresh - last_activation_count[t])
      ]_vars

C33_Witness ==
    /\ recPc[1] = "save_later"
    /\ cyc[1].putOk
    /\ cyc[1].reg \in ForeignValues
    /\ cmms = cyc[1].pub
    /\ cmms \notin ForeignValues
    /\ cyc[1].pub # cyc[1].reg + (cyc[1].fresh - last_activation_count[1])

\* C34: a publish of a cycle after the first that the registry did not
\* accept still advances the running value and the last seen count kept
\* in memory; when the next cycle of the process publishes and is
\* accepted, the registry holds the value of the failed publish plus the
\* delta seen since, without any restart.
C34_FailedPublishCaughtUp ==
    [][ \A t \in tasks :
          /\ (recPc[t] = "save_later" /\ ~cyc[t].putOk
                 /\ recPc'[t] = "sleep") =>
                 /\ last_cmms_value'[t] = cyc[t].pub
                 /\ last_activation_count'[t] = cyc[t].fresh
          /\ (recPc[t] = "save_later" /\ cyc[t].putOk
                 /\ prev[t].pub # NoneV /\ ~prev[t].putOk /\ ~prev[t].first) =>
                 cmms = prev[t].pub + (cyc[t].fresh - prev[t].fresh)
      ]_vars

C34_Witness ==
    /\ recPc[1] = "save_later"
    /\ cyc[1].putOk
    /\ prev[1].pub # NoneV
    /\ ~prev[1].putOk
    /\ ~prev[1].first
    /\ crashes = 0
    /\ cmms = prev[1].pub + (cyc[1].fresh - prev[1].fresh)

----------------------------------------------------------------------------
\* C35: an advance request is issued only for the instance created earlier
\* in the same cycle and once only; and a config that holds an instance
\* still in its initial state (created, never advanced, not aborted) gets
\* no further creation request: the later cycles stop at CHECK_EXISTING.
C35_AdvanceOnlyInCreatingCycle ==
    [][ /\ (pmPc = "adv_put" /\ SweepMoved) =>
              LET c == configs[idx].id
              IN /\ new_pm_id = Len(pms)
                 /\ pms[new_pm_id].cfg = c
                 /\ Req("create", c) \in reqs
                 /\ Req("advance", c) \notin reqs
        /\ (pmPc = "create_post" /\ SweepMoved) =>
              ~ \E i \in 1..Len(pms) :
                    /\ pms[i].cfg = configs[idx].id
                    /\ pms[i].status = "Processing"
      ]_vars

\* C36: the sweep evaluates one config at a time, in list order: within a
\* cycle the position in the list never goes back and moves on only to the
\* first step of an evaluation (or to the end of the cycle); every answer
\* recorded and every request issued belongs to the config at the current
\* position; the steps after CHECK_TRIGGER are entered from the step before
\* them with the position unchanged.
SweepStepOrder ==
    [check_existing |-> {"get_attr"}, create_lookup |-> {"check_existing"},
     create_post |-> {"create_lookup"}, adv_activities |-> {"create_post"},
     adv_put |-> {"adv_activities"}]

ChannelsOf(asset) ==
    {k \in 1..Len(config_with_interval) :
        config_with_interval[k].asset_id = StrOf(asset)}

C37_FirstChannelOnly ==
    [][ (read_chan' # read_chan \/ (pmPc = "get_attr" /\ SweepMoved)) =>
          /\ pmPc = "get_attr"
          /\ read_chan' \in ChannelsOf(configs[idx].Asset_related)
          /\ \A k \in ChannelsOf(configs[idx].Asset_related) : read_chan' <= k
      ]_vars

\* c3's asset has two channels; the first one's attribute was read
C37_Witness ==
    /\ pmPc = "check_existing"
    /\ configs[idx].id = "c3"
    /\ Cardinality(ChannelsOf(configs[idx].Asset_related)) > 1
    /\ read_chan = 2

----------------------------------------------------------------------------
\* C38: for every value (None included) and every trigger config,
\* triggers.is_trigger_met and pm_handler.is_trigger_met return the same
\* boolean.
C38_EvaluatorsAgree ==
    trig_result # TrigPending => trig_result.alt = trig_result.ret

====
